---- MODULE Spec2Model ----
(***************************************************************************)
(* Order placement, cancellation, status transitions and the shopping cart *)
(* of the e-commerce backend (apps/orders, apps/products).                 *)
(*                                                                         *)
(* Money is counted in cents (a DecimalField with two places); a value     *)
(* computed in memory before it is saved is counted in 1/100 of a cent.    *)
(***************************************************************************)
EXTENDS Integers, Sequences, FiniteSets, TLC

\* ------------------------------------------------------------------ bounds

InitStock == 2
MaxOrders == 1
MaxHist == 2
MaxTime == 2
MaxStatusHist == 4
MaxCycleOrders == 2
MaxDay == 32

\* --------------------------------------------------------------- constants

TaxRate == 16
CartMaxAge == 30

Products == {"A", "B"}
ProductIds == Products \cup {"X"}
Customers == {"c1"}
NoTime == 0
NoCart == [exists |-> FALSE, items |-> <<>>, updated_at |-> NoTime]

STATUS_CHOICES ==
    {"pending", "confirmed", "processing", "shipped", "delivered",
     "cancelled", "refunded"}

InitPrice == [p \in Products |-> IF p = "A" THEN 15000 ELSE 8000]
NewPrices == {1999}

\* ------------------------------------------------------------------- state

VARIABLES
    stock,      \* Product.stock_quantity, per product
    price,      \* Product.price in cents, per product
    pstatus,    \* Product.status, per product
    cart,       \* per customer: NoCart, or the Cart row with its CartItem rows in creation order
    orders,     \* the persisted Order rows, in creation order (index = id)
    now,        \* the clock read by timezone.now()
    resp,       \* the response to the latest request
    reqs,       \* per worker: the create request it is handling, and how far it is
    notices,    \* the calls of send_order_notifications, in order, with their outcome
    profile,    \* per customer: the Customer row (first_name, city)
    jobs        \* per worker: the request it is serving, the rows it has loaded, and how far it is

vars == <<stock, price, pstatus, cart, orders, now, resp, reqs, notices, profile, jobs>>

OrderIds == 1..Len(orders)

\* The Customer row of a registered customer.
Registered == [first_name |-> "Ann", city |-> "Nairobi"]

\* What can happen to a notification: every message sent, a sender reporting
\* failure, an exception inside send_order_notifications.
Outcomes == {"sent", "failed", "raised"}

\* The workers that serve requests side by side.
Requests == {"r1", "r2"}

Idle == [pc |-> "idle", customer |-> "", use_cart |-> FALSE, items |-> <<>>, order |-> 0]

\* What the model keeps of a request and its response: the operation, the HTTP
\* status, for a refused placement the position of the item it stopped at, the
\* request's argument (the source of a placement, the status of an update) and
\* the order it was about.
Response(op, code, at, arg, order) ==
    [op |-> op, code |-> code, at |-> at, arg |-> arg, order |-> order]

Source(use_cart) == IF use_cart THEN "cart" ELSE "items"

\* ----------------------------------------------------------------- helpers

RECURSIVE SumSeq(_)
SumSeq(s) == IF s = <<>> THEN 0 ELSE Head(s) + SumSeq(Tail(s))

ItemProducts(items) == {items[i].product : i \in 1..Len(items)}

ItemIndex(items, p) ==
    IF \E i \in 1..Len(items) : items[i].product = p
    THEN CHOOSE i \in 1..Len(items) : items[i].product = p
    ELSE 0

RemoveAt(s, i) == [j \in 1..(Len(s) - 1) |-> IF j < i THEN s[j] ELSE s[j + 1]]

\* The quantity of product p among the items (0 when p is not among them).
QuantityIn(items, p) ==
    IF p \in ItemProducts(items) THEN items[ItemIndex(items, p)].quantity ELSE 0

\* reduce_stock without its save: the row keeps its value.
reduce_stock_unsaved(stock_quantity, quantity) ==
    [ok |-> stock_quantity >= quantity, stock_quantity |-> stock_quantity]

\* Product.reduce_stock on the value the instance holds: (saved?, new value).
reduce_stock(stock_quantity, quantity) ==
    IF stock_quantity >= quantity
    THEN [ok |-> TRUE, stock_quantity |-> stock_quantity - quantity]
    ELSE [ok |-> FALSE, stock_quantity |-> stock_quantity]

\* increase_stock with the sign of reduce_stock.
increase_stock_subtracting(stock_quantity, quantity) == stock_quantity - quantity

\* Product.increase_stock on the value the instance holds.
increase_stock(stock_quantity, quantity) == stock_quantity + quantity

\* CartItem.is_available
is_available(st, cart_item) == st[cart_item.product] >= cart_item.quantity

\* A PositiveIntegerField column refuses a negative value (IntegrityError).
PositiveIntegerField(v) == v >= 0

\* A DecimalField(decimal_places=2) column: the value, given in 1/100 cent,
\* is quantized to cents on save (decimal context rounding, half to even).
DecimalField(v) ==
    LET q == v \div 100
        r == v % 100
    IN  IF r < 50 THEN q
        ELSE IF r > 50 THEN q + 1
        ELSE IF q % 2 = 0 THEN q ELSE q + 1

\* OrderItem.save: snapshot of the live price, total_price = unit_price * quantity
OrderItem(product, quantity) ==
    [product |-> product, quantity |-> quantity,
     unit_price |-> price[product],
     total_price |-> price[product] * quantity]

\* calculate_totals that leaves the tax out of the total.
calculate_totals_untaxed(order) ==
    LET subtotal == SumSeq([i \in 1..Len(order.items) |-> order.items[i].total_price])
        tax_amount == subtotal * TaxRate
        total_amount == subtotal * 100
                        + order.shipping_cost * 100 - order.discount_amount * 100
    IN  [order EXCEPT !.subtotal = subtotal,
                      !.tax_amount = DecimalField(tax_amount),
                      !.total_amount = DecimalField(total_amount)]

\* Order.calculate_totals followed by the save of the three columns.
calculate_totals(order) ==
    LET subtotal == SumSeq([i \in 1..Len(order.items) |-> order.items[i].total_price])
        tax_amount == subtotal * TaxRate
        total_amount == subtotal * 100 + tax_amount
                        + order.shipping_cost * 100 - order.discount_amount * 100
    IN  [order EXCEPT !.subtotal = subtotal,
                      !.tax_amount = DecimalField(tax_amount),
                      !.total_amount = DecimalField(total_amount)]

\* Order.save that prices the items at the catalogue's current price.
SaveOrder_live(order) ==
    calculate_totals([order EXCEPT !.items =
        [i \in 1..Len(order.items) |->
            [order.items[i] EXCEPT !.total_price =
                price[order.items[i].product] * order.items[i].quantity]]])

\* Order.copy_customer_info
copy_customer_info(order) ==
    LET customer == profile[order.customer]
        billed == [order EXCEPT !.billing_first_name = customer.first_name,
                                !.billing_city = customer.city]
    IN  IF billed.shipping_first_name = ""
        THEN [billed EXCEPT !.shipping_first_name = billed.billing_first_name,
                            !.shipping_city = billed.billing_city]
        ELSE billed

\* Order.save that copies the customer information every time.
SaveOrder_resync(order) == calculate_totals(copy_customer_info(order))

\* Order.save
SaveOrder(order) ==
    calculate_totals(IF order.billing_first_name = ""
                     THEN copy_customer_info(order)
                     ELSE order)

\* can_be_cancelled that forgets the status.
can_be_cancelled_always(order) == TRUE

\* Order.can_be_cancelled
can_be_cancelled(order) == order.status \in {"pending", "confirmed"}

\* OrderStatusHistory.objects.create
OrderStatusHistory(status, comment, created_by) ==
    [status |-> status, comment |-> comment, created_by |-> created_by]

\* Order.objects.create(customer=customer, notes=notes): the column defaults.
NewOrder(customer) ==
    [customer |-> customer, status |-> "pending", items |-> <<>>,
     subtotal |-> 0, tax_amount |-> 0, shipping_cost |-> 0,
     discount_amount |-> 0, total_amount |-> 0, history |-> <<>>,
     confirmed_at |-> NoTime, shipped_at |-> NoTime, delivered_at |-> NoTime,
     billing_first_name |-> "", billing_city |-> "",
     shipping_first_name |-> "", shipping_city |-> "",
     tracking_number |-> ""]

\* The block without transaction.atomic(): every write stays.
Atomic_autocommit(before, after) == after

\* transaction.atomic(): the block's writes are kept if it ends normally and
\* undone if an exception leaves it.
Atomic(before, after) ==
    IF after.ok THEN after
    ELSE [before EXCEPT !.ok = FALSE, !.err = after.err, !.at = after.at]

\* The rows a request works on, with the outcome of the work so far.
Database == [ok |-> TRUE, err |-> "", at |-> 0,
             stock |-> stock, cart |-> cart, orders |-> orders]

Raise(db, err, at) == [db EXCEPT !.ok = FALSE, !.err = err, !.at = at]

\* ------------------------------------------------- OrderCreateSerializer

Item(product_id, quantity) == [product_id |-> product_id, quantity |-> quantity]

\* The item lists of at most two items over the given product ids and quantities.
ItemLists(ids, quantities) ==
    {<<>>} \cup {<<Item(p, q)>> : p \in ids, q \in quantities}
           \cup {<<Item(p1, q1), Item(p2, q2)>> :
                    p1 \in ids, p2 \in ids, q1 \in quantities, q2 \in quantities}

\* validate without the comparison of the quantity to the stock.
validate_any_quantity(use_cart, items) ==
    LET refused(i) ==
            \/ items[i].product_id \notin Products
            \/ pstatus[items[i].product_id] # "active"
        bad == {i \in 1..Len(items) : refused(i)}
        first == CHOOSE i \in bad : \A j \in bad : i <= j
    IN  IF ~use_cart /\ items = <<>> THEN Raise(Database, "no items", 0)
        ELSE IF ~use_cart /\ bad # {}
        THEN Raise(Database, "not found or inactive", first)
        ELSE Database

\* OrderCreateSerializer.validate: the index of the first item refused.
validate(use_cart, items) ==
    LET refused(i) ==
            \/ items[i].product_id \notin Products
            \/ pstatus[items[i].product_id] # "active"
            \/ items[i].quantity > stock[items[i].product_id]
        bad == {i \in 1..Len(items) : refused(i)}
        first == CHOOSE i \in bad : \A j \in bad : i <= j
    IN  IF ~use_cart /\ items = <<>> THEN Raise(Database, "no items", 0)
        ELSE IF ~use_cart /\ bad # {} THEN
            IF items[first].product_id \in Products
               /\ pstatus[items[first].product_id] = "active"
            THEN Raise(Database, "only n items available", first)
            ELSE Raise(Database, "not found or inactive", first)
        ELSE Database

\* OrderItem.objects.create(order, product, quantity) on the order being built
\* (the last row of db.orders), then product.reduce_stock(quantity), whose
\* result the caller drops.
TransferItem(db, product, quantity, at) ==
    LET id == Len(db.orders)
        order == db.orders[id]
        reduced == reduce_stock(db.stock[product], quantity)
    IN  IF product \in ItemProducts(order.items) \/ ~PositiveIntegerField(quantity)
        THEN Raise(db, "IntegrityError", at)
        ELSE [db EXCEPT
                !.orders[id].items = Append(order.items, OrderItem(product, quantity)),
                !.stock[product] = reduced.stock_quantity]

\* create, the use_cart branch: for cart_item in cart_items
RECURSIVE TransferCart(_, _, _)
TransferCart(db, cart_items, i) ==
    IF ~db.ok \/ i > Len(cart_items) THEN db
    ELSE IF ~is_available(db.stock, cart_items[i])
    THEN Raise(db, "not available in requested quantity", i)
    ELSE TransferCart(
            TransferItem(db, cart_items[i].product, cart_items[i].quantity, i),
            cart_items, i + 1)

\* create, the items branch: for item_data in items_data
RECURSIVE TransferItems(_, _, _)
TransferItems(db, items_data, i) ==
    IF ~db.ok \/ i > Len(items_data) THEN db
    ELSE IF items_data[i].product_id \notin Products
    THEN Raise(db, "Product.DoesNotExist", i)
    ELSE TransferItems(
            TransferItem(db, items_data[i].product_id, items_data[i].quantity, i),
            items_data, i + 1)

\* clear that deletes nothing.
ClearCart_kept(a_cart) == a_cart

\* Cart.clear
ClearCart(a_cart) == [a_cart EXCEPT !.items = <<>>]

\* OrderCreateSerializer.create: the body of the transaction.atomic() block.
\* a_cart is the cart as Cart.objects.get and cart_items.exists() find it; the
\* loop runs its own query, on db0.
create_of(db0, customer, use_cart, items_data, a_cart) ==
    LET db1 == [db0 EXCEPT !.orders = Append(db0.orders, SaveOrder(NewOrder(customer)))]
        id == Len(db1.orders)
        db2 == IF use_cart
               THEN IF ~a_cart.exists THEN Raise(db1, "Cart not found.", 0)
                    ELSE IF a_cart.items = <<>> THEN Raise(db1, "Cart is empty.", 0)
                    ELSE LET moved == TransferCart(db1, db1.cart[customer].items, 1)
                         IN  IF moved.ok
                             THEN [moved EXCEPT !.cart[customer] = ClearCart(@)]
                             ELSE moved
               ELSE TransferItems(db1, items_data, 1)
    IN  IF ~db2.ok THEN db2
        ELSE [db2 EXCEPT
                !.orders[id] = [SaveOrder(db2.orders[id]) EXCEPT
                    !.history = <<OrderStatusHistory("pending", "Order created", customer)>>]]

\* OrderCreateSerializer.create with nothing committed between its queries
create(db0, customer, use_cart, items_data) ==
    create_of(db0, customer, use_cart, items_data, db0.cart[customer])

\* OrderViewSet.create up to its response: is_valid, then save in the atomic block.
Placement(customer, use_cart, items) ==
    LET valid == validate(use_cart, items)
    IN  IF valid.ok
        THEN Atomic(Database, create(Database, customer, use_cart, items))
        ELSE valid

\* send_order_notifications without its try / except: an exception inside
\* reaches the caller.
send_order_notifications_unguarded(order_id, outcome) ==
    [raised |-> outcome = "raised",
     notice |-> [order |-> order_id, result |-> outcome]]

\* send_order_notifications: whatever happens to the messages is printed, and
\* nothing is raised.
send_order_notifications(order_id, outcome) ==
    [raised |-> FALSE,
     notice |-> [order |-> order_id, result |-> outcome]]

\* OrderViewSet.create: is_valid, save, send_order_notifications, the response;
\* an exception after is_valid is answered 400.
PlaceOrderNotifying(customer, use_cart, items, outcome) ==
    /\ \E done \in {Placement(customer, use_cart, items)} :
           /\ stock' = done.stock
           /\ cart' = done.cart
           /\ orders' = done.orders
           /\ IF done.ok
              THEN \E sent \in {send_order_notifications(Len(done.orders), outcome)} :
                      /\ notices' = Append(notices, sent.notice)
                      /\ resp' = Response("create", IF sent.raised THEN 400 ELSE 201,
                                          0, Source(use_cart), Len(done.orders))
              ELSE /\ notices' = notices
                   /\ resp' = Response("create", 400, done.at, Source(use_cart), 0)
    /\ UNCHANGED <<price, pstatus, now, reqs, profile, jobs>>

\* OrderViewSet.create, with every message delivered
PlaceOrder(customer, use_cart, items) ==
    PlaceOrderNotifying(customer, use_cart, items, "sent")

\* OrderViewSet.create, step by step, for requests served side by side. The
\* atomic block is one step here: the requests race between the validation
\* and the block.

\* serializer = self.get_serializer(data=request.data)
get_serializer(r, customer, use_cart, items) ==
    /\ reqs[r].pc = "idle"
    /\ reqs' = [reqs EXCEPT ![r] = [pc |-> "received", customer |-> customer,
                                    use_cart |-> use_cart, items |-> items, order |-> 0]]
    /\ UNCHANGED <<stock, price, pstatus, cart, orders, now, resp, notices, profile, jobs>>

\* serializer.is_valid(raise_exception=True): validate, on the rows as they are now
is_valid(r) ==
    /\ reqs[r].pc = "received"
    /\ \E valid \in {validate(reqs[r].use_cart, reqs[r].items)} :
           IF valid.ok
           THEN /\ reqs' = [reqs EXCEPT ![r].pc = "valid"]
                /\ UNCHANGED resp
           ELSE /\ reqs' = [reqs EXCEPT ![r].pc = "refused"]
                /\ resp' = Response("create", 400, valid.at, Source(reqs[r].use_cart), 0)
    /\ UNCHANGED <<stock, price, pstatus, cart, orders, now, notices, profile, jobs>>

\* save with the notification sent from inside the atomic block, for the order
\* being created.
save_notifying(r) ==
    /\ reqs[r].pc = "valid"
    /\ \E done \in {Atomic(Database, create(Database, reqs[r].customer,
                                             reqs[r].use_cart, reqs[r].items))} :
           /\ stock' = done.stock
           /\ cart' = done.cart
           /\ orders' = done.orders
           /\ notices' = Append(notices, [order |-> Len(orders) + 1, result |-> "sent"])
           /\ IF done.ok
              THEN /\ reqs' = [reqs EXCEPT ![r].pc = "saved",
                                           ![r].order = Len(done.orders)]
                   /\ UNCHANGED resp
              ELSE /\ reqs' = [reqs EXCEPT ![r].pc = "refused"]
                   /\ resp' = Response("create", 400, done.at,
                                       Source(reqs[r].use_cart), 0)
    /\ UNCHANGED <<price, pstatus, now, profile, jobs>>

\* order = serializer.save(): create in its atomic block; an exception is
\* answered 400
save(r) ==
    /\ reqs[r].pc = "valid"
    /\ \E done \in {Atomic(Database, create(Database, reqs[r].customer,
                                             reqs[r].use_cart, reqs[r].items))} :
           /\ stock' = done.stock
           /\ cart' = done.cart
           /\ orders' = done.orders
           /\ IF done.ok
              THEN /\ reqs' = [reqs EXCEPT ![r].pc = "saved",
                                           ![r].order = Len(done.orders)]
                   /\ UNCHANGED resp
              ELSE /\ reqs' = [reqs EXCEPT ![r].pc = "refused"]
                   /\ resp' = Response("create", 400, done.at,
                                       Source(reqs[r].use_cart), 0)
    /\ UNCHANGED <<price, pstatus, now, notices, profile, jobs>>

\* send_order_notifications(order.id), then the response
notify(r, outcome) ==
    /\ reqs[r].pc = "saved"
    /\ \E sent \in {send_order_notifications(reqs[r].order, outcome)} :
           /\ notices' = Append(notices, sent.notice)
           /\ reqs' = [reqs EXCEPT ![r].pc = IF sent.raised THEN "refused" ELSE "created"]
           /\ resp' = Response("create", IF sent.raised THEN 400 ELSE 201,
                               0, Source(reqs[r].use_cart), reqs[r].order)
    /\ UNCHANGED <<stock, price, pstatus, cart, orders, now, profile, jobs>>

\* ------------------------------------------------------------ OrderViewSet

\* cancel, the loop of its atomic block: for item in order.items.all().
\* fault is the write at which the database raises (0: it never does).
RECURSIVE RestoreItems(_, _, _, _)
RestoreItems(db, items, i, fault) ==
    IF ~db.ok \/ i > Len(items) THEN db
    ELSE IF fault = i THEN Raise(db, "DatabaseError", i)
    ELSE RestoreItems(
            [db EXCEPT !.stock[items[i].product] =
                            increase_stock(@, items[i].quantity)],
            items, i + 1, fault)

\* cancel, its atomic block: the stock restored, the status saved, the
\* history row created.
cancel_block(db0, customer, id, fault) ==
    LET n == Len(db0.orders[id].items)
        db1 == RestoreItems(db0, db0.orders[id].items, 1, fault)
        db2 == IF ~db1.ok THEN db1
               ELSE IF fault = n + 1 THEN Raise(db1, "DatabaseError", n + 1)
               ELSE [db1 EXCEPT !.orders[id] =
                        SaveOrder([@ EXCEPT !.status = "cancelled"])]
    IN  IF ~db2.ok THEN db2
        ELSE IF fault = n + 2 THEN Raise(db2, "DatabaseError", n + 2)
        ELSE [db2 EXCEPT !.orders[id].history = Append(@, OrderStatusHistory(
                    "cancelled", "Order cancelled by customer", customer))]

\* OrderViewSet.cancel, on a database that may raise at one of the writes; an
\* exception leaves the view and is answered 500.
cancel_failing(customer, id, fault) ==
    /\ id \in OrderIds
    /\ orders[id].customer = customer
    /\ IF ~can_be_cancelled(orders[id])
       THEN /\ resp' = Response("cancel", 400, 0, "", id)
            /\ UNCHANGED <<stock, orders>>
       ELSE \E done \in {Atomic(Database, cancel_block(Database, customer, id, fault))} :
               /\ stock' = done.stock
               /\ orders' = done.orders
               /\ resp' = IF done.ok THEN Response("cancel", 200, 0, "", id)
                          ELSE Response("cancel", 500, done.at, "", id)
    /\ UNCHANGED <<price, pstatus, cart, now, reqs, notices, profile, jobs>>

\* OrderViewSet.cancel
cancel(customer, id) == cancel_failing(customer, id, 0)

NoStatus == "NoStatus"

get_status_display(status) == status

\* Timestamps that are written only while still empty.
StampStatus_once(order, status) ==
    IF status = "confirmed" /\ order.confirmed_at = NoTime
    THEN [order EXCEPT !.confirmed_at = now]
    ELSE IF status = "shipped" /\ order.shipped_at = NoTime
    THEN [order EXCEPT !.shipped_at = now]
    ELSE IF status = "delivered" /\ order.delivered_at = NoTime
    THEN [order EXCEPT !.delivered_at = now]
    ELSE order

\* OrderUpdateSerializer.update, the timestamp of the status entered
StampStatus(order, status) ==
    IF status = "confirmed" THEN [order EXCEPT !.confirmed_at = now]
    ELSE IF status = "shipped" THEN [order EXCEPT !.shipped_at = now]
    ELSE IF status = "delivered" THEN [order EXCEPT !.delivered_at = now]
    ELSE order

\* The guard without the comparison to the old status.
status_changed_unchecked(status, old_status) == status # NoStatus

\* OrderUpdateSerializer.update: 'status' in validated_data and
\* validated_data['status'] != old_status
status_changed(status, old_status) == status # NoStatus /\ status # old_status

\* A status update that gives the stock back when the order is set to cancelled.
update_restoring(customer, id, status, status_comment) ==
    /\ id \in OrderIds
    /\ orders[id].customer = customer
    /\ orders' = [orders EXCEPT ![id].status = IF status = NoStatus THEN @ ELSE status]
    /\ stock' = IF status = "cancelled"
                THEN [p \in Products |-> stock[p] + QuantityIn(orders[id].items, p)]
                ELSE stock
    /\ resp' = Response("update", 200, 0, status, id)
    /\ UNCHANGED <<price, pstatus, cart, now, reqs, notices, profile, jobs>>

\* A status update that keeps one row per order: the latest row is rewritten.
update_rewriting(customer, id, status, status_comment) ==
    /\ id \in OrderIds
    /\ orders[id].customer = customer
    /\ orders' = IF status_changed(status, orders[id].status)
                 THEN [orders EXCEPT
                        ![id].status = status,
                        ![id].history[Len(orders[id].history)] =
                            OrderStatusHistory(status, status, customer)]
                 ELSE orders
    /\ resp' = Response("update", 200, 0, status, id)
    /\ UNCHANGED <<stock, price, pstatus, cart, now, reqs, notices, profile, jobs>>

NoTracking == "NoTracking"

\* ModelSerializer.update: setattr for every field of validated_data
SetFields(order, status, tracking_number) ==
    [order EXCEPT
        !.status = IF status = NoStatus THEN @ ELSE status,
        !.tracking_number = IF tracking_number = NoTracking THEN @
                            ELSE tracking_number]

\* OrderUpdateSerializer.update (OrderViewSet.update / partial_update);
\* status = NoStatus is a request that carries no status, tracking_number =
\* NoTracking one that carries no tracking number.
update_details(customer, id, status, status_comment, tracking_number) ==
    /\ id \in OrderIds
    /\ orders[id].customer = customer
    /\ LET old_status == orders[id].status
           updated_order == SaveOrder(SetFields(orders[id], status, tracking_number))
           comment == IF status_comment # "" THEN status_comment
                      ELSE get_status_display(status)
       IN  IF status_changed(status, old_status)
           THEN /\ orders' = [orders EXCEPT ![id] =
                        SaveOrder(StampStatus(
                            [updated_order EXCEPT !.history = Append(@,
                                OrderStatusHistory(status, comment, customer))],
                            status))]
           ELSE orders' = [orders EXCEPT ![id] = updated_order]
    /\ resp' = Response("update", 200, 0, status, id)
    /\ UNCHANGED <<stock, price, pstatus, cart, now, reqs, notices, profile, jobs>>

\* OrderUpdateSerializer.update of a request without a tracking number
update(customer, id, status, status_comment) ==
    update_details(customer, id, status, status_comment, NoTracking)

\* ------------------------------------------------------------- CartViewSet

\* CartItem.objects.get_or_create(cart, product, defaults): added_at is auto_now_add
CartItem(product, quantity) ==
    [product |-> product, quantity |-> quantity, added_at |-> now]

\* Cart.objects.get_or_create(customer=request.user): a row created now, with
\* updated_at (auto_now) written by that save, or the row there is, untouched.
get_or_create(a_cart) ==
    IF a_cart.exists THEN a_cart
    ELSE [exists |-> TRUE, items |-> <<>>, updated_at |-> now]

\* The customer's cart, got or created, holding the given CartItem rows.
Cart(customer, items) == [get_or_create(cart[customer]) EXCEPT !.items = items]

\* CartViewSet.get_object, the CartItem rows of the cart
get_object(customer) == cart[customer].items

\* add_item that adds to an item of the cart without looking at the stock.
add_item_unchecked(customer, product_id, quantity) ==
    /\ IF \/ product_id \notin Products
          \/ pstatus[product_id] # "active"
          \/ quantity < 1
          \/ quantity > stock[product_id]
       THEN /\ resp' = Response("add_item", 400, 0, "", 0)
            /\ UNCHANGED cart
       ELSE LET items == get_object(customer)
                i == ItemIndex(items, product_id)
            IN  /\ cart' = [cart EXCEPT ![customer] =
                        Cart(customer,
                             IF i = 0
                             THEN Append(items, CartItem(product_id, quantity))
                             ELSE [items EXCEPT ![i].quantity = @ + quantity])]
                /\ resp' = Response("add_item", 200, 0, "", 0)
    /\ UNCHANGED <<stock, price, pstatus, orders, now, reqs, notices, profile, jobs>>

\* CartViewSet.add_item, after AddToCartSerializer accepted the request
add_item(customer, product_id, quantity) ==
    /\ IF \/ product_id \notin Products
          \/ pstatus[product_id] # "active"
          \/ quantity < 1
          \/ quantity > stock[product_id]
       THEN /\ resp' = Response("add_item", 400, 0, "", 0)
            /\ UNCHANGED cart
       ELSE LET items == get_object(customer)
                i == ItemIndex(items, product_id)
            IN  IF i = 0
                THEN /\ cart' = [cart EXCEPT ![customer] =
                                    Cart(customer, Append(items, CartItem(product_id, quantity)))]
                     /\ resp' = Response("add_item", 200, 0, "", 0)
                ELSE IF items[i].quantity + quantity > stock[product_id]
                THEN /\ cart' = [cart EXCEPT ![customer] = Cart(customer, items)]
                     /\ resp' = Response("add_item", 400, 0, "", 0)
                ELSE /\ cart' = [cart EXCEPT ![customer] =
                                    Cart(customer, [items EXCEPT ![i].quantity = @ + quantity])]
                     /\ resp' = Response("add_item", 200, 0, "", 0)
    /\ UNCHANGED <<stock, price, pstatus, orders, now, reqs, notices, profile, jobs>>

\* CartViewSet.remove_item
remove_item(customer, product_id) ==
    /\ LET items == get_object(customer)
           i == ItemIndex(items, product_id)
       IN  IF i = 0
           THEN /\ cart' = [cart EXCEPT ![customer] = Cart(customer, items)]
                /\ resp' = Response("remove_item", 404, 0, "", 0)
           ELSE /\ cart' = [cart EXCEPT ![customer] = Cart(customer, RemoveAt(items, i))]
                /\ resp' = Response("remove_item", 200, 0, "", 0)
    /\ UNCHANGED <<stock, price, pstatus, orders, now, reqs, notices, profile, jobs>>

\* CartViewSet.update_quantity
update_quantity(customer, product_id, quantity) ==
    /\ IF quantity < 1
       THEN /\ resp' = Response("update_quantity", 400, 0, "", 0)
            /\ UNCHANGED cart
       ELSE LET items == get_object(customer)
                i == ItemIndex(items, product_id)
            IN  IF i = 0
                THEN /\ cart' = [cart EXCEPT ![customer] = Cart(customer, items)]
                     /\ resp' = Response("update_quantity", 404, 0, "", 0)
                ELSE IF quantity > stock[product_id]
                THEN /\ cart' = [cart EXCEPT ![customer] = Cart(customer, items)]
                     /\ resp' = Response("update_quantity", 400, 0, "", 0)
                ELSE /\ cart' = [cart EXCEPT ![customer] =
                                    Cart(customer, [items EXCEPT ![i].quantity = quantity])]
                     /\ resp' = Response("update_quantity", 200, 0, "", 0)
    /\ UNCHANGED <<stock, price, pstatus, orders, now, reqs, notices, profile, jobs>>

\* CartViewSet.clear
clear(customer) ==
    /\ cart' = [cart EXCEPT ![customer] = ClearCart(Cart(customer, get_object(customer)))]
    /\ resp' = Response("clear", 200, 0, "", 0)
    /\ UNCHANGED <<stock, price, pstatus, orders, now, reqs, notices, profile, jobs>>

\* Cart.total_amount: the sum of CartItem.total_price, at the product's price now
cart_total_amount(customer) ==
    SumSeq([i \in 1..Len(cart[customer].items) |->
                price[cart[customer].items[i].product] * cart[customer].items[i].quantity])

\* ---------------------------------------------------------- ProductViewSet

\* ProductCreateSerializer.update with a new price
update_price(product, new_price) ==
    /\ price' = [price EXCEPT ![product] = new_price]
    /\ resp' = Response("product", 200, 0, "", 0)
    /\ UNCHANGED <<stock, pstatus, cart, orders, now, reqs, notices, profile, jobs>>

\* CustomerViewSet profile update (CustomerSerializer, partial): first_name may
\* not be blank, city may.
update_profile(customer, first_name, city) ==
    /\ IF first_name = ""
       THEN /\ UNCHANGED profile
            /\ resp' = Response("profile", 400, 0, "", 0)
       ELSE /\ profile' = [profile EXCEPT ![customer] =
                                [first_name |-> first_name, city |-> city]]
            /\ resp' = Response("profile", 200, 0, "", 0)
    /\ UNCHANGED <<stock, price, pstatus, cart, orders, now, reqs, notices, jobs>>

\* ProductViewSet.update / partial_update with a new status
update_status(product, new_status) ==
    /\ pstatus' = [pstatus EXCEPT ![product] = new_status]
    /\ resp' = Response("product", 200, 0, "", 0)
    /\ UNCHANGED <<stock, price, cart, orders, now, reqs, notices, profile, jobs>>

\* cleanup_abandoned_carts: the carts whose updated_at is before the cutoff
\* are deleted, their items with them.
cleanup_abandoned_carts ==
    /\ LET cutoff_date == now - CartMaxAge
       IN  cart' = [c \in Customers |->
                        IF cart[c].exists /\ cart[c].updated_at < cutoff_date
                        THEN NoCart ELSE cart[c]]
    /\ UNCHANGED <<stock, price, pstatus, orders, now, resp, reqs, notices, profile, jobs>>

\* timezone.now() moves on
Tick ==
    /\ now' = now + 1
    /\ UNCHANGED <<stock, price, pstatus, cart, orders, resp, reqs, notices, profile, jobs>>

\* ----------------------------------------------------------- specification

\* The database after the migrations and the catalogue's load: no cart, no order.
Fresh ==
    [ok |-> TRUE, err |-> "", at |-> 0,
     stock |-> [p \in Products |-> InitStock],
     cart |-> [c \in Customers |-> NoCart],
     orders |-> <<>>]

\* ------------------------------------------- requests racing on the rows
\*
\* A request loads rows into model instances and writes the instances back
\* later; another request's commit may come in between. Reads outside a
\* transaction (get_object, validate) see what is committed; so do reads in a
\* block under READ COMMITTED, the default level of the PostgreSQL and MySQL
\* backends. A block's writes become visible together.

NoJob == [pc |-> "idle", op |-> "none", customer |-> "", order |-> 0,
          use_cart |-> FALSE, items |-> <<>>, seen |-> Fresh, a_cart |-> NoCart]

Job(pc, op, customer, order, use_cart, items, seen) ==
    [pc |-> pc, op |-> op, customer |-> customer, order |-> order,
     use_cart |-> use_cart, items |-> items, seen |-> seen, a_cart |-> NoCart]

\* The rows as the request's instances hold them: the order and the products
\* of its items as loaded, the order's history rows and everything else as
\* they are in the database now.
Instances(seen, id) ==
    [Database EXCEPT
        !.stock = [p \in Products |->
                     IF p \in ItemProducts(seen.orders[id].items)
                     THEN seen.stock[p] ELSE stock[p]],
        !.orders[id] = [seen.orders[id] EXCEPT !.history = orders[id].history]]

\* OrderViewSet.cancel: order = self.get_object() - the order with its items
\* and their products (prefetch_related('items__product')) - and the check of
\* can_be_cancelled on the instance loaded.
cancel_get_object(r, customer, id) ==
    /\ jobs[r].pc = "idle"
    /\ id \in OrderIds
    /\ orders[id].customer = customer
    /\ IF ~can_be_cancelled(orders[id])
       THEN /\ jobs' = [jobs EXCEPT ![r] =
                        Job("refused", "cancel", customer, id, FALSE, <<>>, Database)]
            /\ resp' = Response("cancel", 400, 0, "", id)
       ELSE /\ jobs' = [jobs EXCEPT ![r] =
                        Job("loaded", "cancel", customer, id, FALSE, <<>>, Database)]
            /\ UNCHANGED resp
    /\ UNCHANGED <<stock, price, pstatus, cart, orders, now, reqs, notices, profile>>

\* OrderViewSet.cancel: the atomic block, on the instances loaded by
\* get_object, and the response.
cancel_atomic(r) ==
    /\ jobs[r].pc = "loaded"
    /\ jobs[r].op = "cancel"
    /\ \E done \in {cancel_block(Instances(jobs[r].seen, jobs[r].order),
                                  jobs[r].customer, jobs[r].order, 0)} :
           /\ stock' = done.stock
           /\ orders' = done.orders
    /\ jobs' = [jobs EXCEPT ![r].pc = "done"]
    /\ resp' = Response("cancel", 200, 0, "", jobs[r].order)
    /\ UNCHANGED <<price, pstatus, cart, now, reqs, notices, profile>>

\* OrderViewSet.create: is_valid, then the first queries of the atomic block
\* of OrderCreateSerializer.create on the cart path - Cart.objects.get and
\* cart_items.exists(); a cart missing or empty is answered 400.
create_read(r, customer, use_cart, items) ==
    /\ jobs[r].pc = "idle"
    /\ \E valid \in {validate(use_cart, items)} :
           IF valid.ok /\ (use_cart => cart[customer].exists /\ cart[customer].items # <<>>)
           THEN /\ jobs' = [jobs EXCEPT ![r] =
                            [Job("checked", "create", customer, 0, use_cart, items, Database)
                                EXCEPT !.a_cart = cart[customer]]]
                /\ UNCHANGED resp
           ELSE /\ jobs' = [jobs EXCEPT ![r] =
                            Job("refused", "create", customer, 0, use_cart, items, Database)]
                /\ resp' = Response("create", 400, valid.at, Source(use_cart), 0)
    /\ UNCHANGED <<stock, price, pstatus, cart, orders, now, reqs, notices, profile>>

\* OrderCreateSerializer.create: the query of the loop (for cart_item in
\* cart_items) and the load of the products. The rows are read at one
\* moment, which is what a placement of a single item does (a block of
\* several items reads a product after it has written the one before).
create_iterate(r) ==
    /\ jobs[r].pc = "checked"
    /\ jobs' = [jobs EXCEPT ![r].pc = "read", ![r].seen = Database]
    /\ UNCHANGED <<stock, price, pstatus, cart, orders, now, resp, reqs, notices, profile>>

\* OrderViewSet.create: the writes of the atomic block - the order and its
\* items, the stock of the products as reduce_stock computed it on the
\* instances read, the cart's items deleted - then the notification and the
\* response.
create_write(r) ==
    /\ jobs[r].pc = "read"
    /\ jobs[r].op = "create"
    /\ LET seen == jobs[r].seen
           db0 == [Database EXCEPT !.stock = seen.stock, !.cart = seen.cart]
           done == Atomic(db0, create_of(db0, jobs[r].customer, jobs[r].use_cart,
                                         jobs[r].items, jobs[r].a_cart))
           id == Len(done.orders)
       IN  IF done.ok
           THEN /\ orders' = done.orders
                /\ stock' = [p \in Products |->
                                IF done.stock[p] # seen.stock[p]
                                THEN done.stock[p] ELSE stock[p]]
                /\ cart' = IF jobs[r].use_cart
                           THEN [cart EXCEPT ![jobs[r].customer] = ClearCart(@)]
                           ELSE cart
                /\ notices' = Append(notices,
                                     send_order_notifications(id, "sent").notice)
                /\ jobs' = [jobs EXCEPT ![r].pc = "done", ![r].order = id]
                /\ resp' = Response("create", 201, 0, Source(jobs[r].use_cart), id)
           ELSE /\ jobs' = [jobs EXCEPT ![r].pc = "refused"]
                /\ resp' = Response("create", 400, done.at, Source(jobs[r].use_cart), 0)
                /\ UNCHANGED <<stock, cart, orders, notices>>
    /\ UNCHANGED <<price, pstatus, now, reqs, profile>>

Init ==
    /\ stock = Fresh.stock
    /\ price = InitPrice
    /\ pstatus = [p \in Products |-> "active"]
    /\ cart = Fresh.cart
    /\ orders = Fresh.orders
    /\ now = 1
    /\ resp = Response("none", 0, 0, "", 0)
    /\ reqs = [r \in Requests |-> Idle]
    /\ notices = <<>>
    /\ profile = [c \in Customers |-> Registered]
    /\ jobs = [r \in Requests |-> NoJob]

\* Caps of the model: orders placed, history rows per order, clock readings.
\* A request that adds no row is never held back.
RoomForHistory(id, rows) == id \in OrderIds /\ Len(orders[id].history) < rows

\* Every operation of the order and cart API, on a single order.
Next ==
    \/ \E c \in Customers :
            PlaceOrder(c, TRUE, <<>>) /\ Len(orders') <= MaxOrders
    \/ \E c \in Customers, items \in ItemLists(Products, {-1, 1, 2}) :
            PlaceOrder(c, FALSE, items) /\ Len(orders') <= MaxOrders
    \/ \E c \in Customers, id \in OrderIds :
            /\ RoomForHistory(id, MaxHist) \/ ~can_be_cancelled(orders[id])
            /\ cancel(c, id)
    \/ \E c \in Customers, id \in OrderIds, s \in {"confirmed", "cancelled", NoStatus} :
            /\ RoomForHistory(id, MaxHist) \/ ~status_changed(s, orders[id].status)
            /\ update(c, id, s, "")
    \/ \E c \in Customers, p \in ProductIds, q \in {0, 1, 2} : add_item(c, p, q)
    \/ \E c \in Customers, p \in ProductIds : remove_item(c, p)
    \/ \E c \in Customers, p \in ProductIds, q \in {0, 1, 2} : update_quantity(c, p, q)
    \/ \E c \in Customers : clear(c)
    \/ \E p \in Products, v \in NewPrices : update_price(p, v)

Spec == Init /\ [][Next]_vars

\* Placement alone: carts are filled and orders placed until the stock is used up.
NextPlace ==
    \/ \E c \in Customers : PlaceOrder(c, TRUE, <<>>)
    \/ \E c \in Customers, items \in ItemLists(Products, {-1, 1, 2}) :
            PlaceOrder(c, FALSE, items)
    \/ \E c \in Customers, p \in ProductIds, q \in {0, 1, 2} : add_item(c, p, q)

SpecPlace == Init /\ [][NextPlace]_vars

\* The life of one order: the database holds an order just placed, and the
\* customer updates its status and cancels it while the clock moves on.
InitStatus ==
    /\ price = InitPrice
    /\ pstatus = [p \in Products |-> "active"]
    /\ now = 1
    /\ reqs = [r \in Requests |-> Idle]
    /\ notices = <<>>
    /\ profile = [c \in Customers |-> Registered]
    /\ jobs = [r \in Requests |-> NoJob]
    /\ \E c \in Customers, items \in {<<Item("A", 1)>>, <<Item("A", 2), Item("B", 1)>>} :
         \E done \in {create(Fresh, c, FALSE, items)} :
            /\ stock = done.stock
            /\ cart = done.cart
            /\ orders = done.orders
            /\ resp = Response("create", 201, 0, Source(FALSE), 1)

NextStatus ==
    \/ \E c \in Customers, id \in OrderIds :
            /\ RoomForHistory(id, MaxStatusHist) \/ ~can_be_cancelled(orders[id])
            /\ cancel(c, id)
    \/ \E c \in Customers, id \in OrderIds, s \in STATUS_CHOICES \cup {NoStatus} :
            /\ RoomForHistory(id, MaxStatusHist) \/ ~status_changed(s, orders[id].status)
            /\ update(c, id, s, "")
    \/ now < MaxTime /\ Tick

SpecStatus == InitStatus /\ [][NextStatus]_vars

\* Placements and cancellations only, over several orders.
NextCycle ==
    \/ \E c \in Customers :
            PlaceOrder(c, TRUE, <<>>) /\ Len(orders') <= MaxCycleOrders
    \/ \E c \in Customers, items \in ItemLists(Products, {1, 2}) :
            PlaceOrder(c, FALSE, items) /\ Len(orders') <= MaxCycleOrders
    \/ \E c \in Customers, id \in OrderIds : cancel(c, id)
    \/ \E c \in Customers, p \in Products : add_item(c, p, 1)

SpecCycle == Init /\ [][NextCycle]_vars

\* Placements, status updates and cancellations over several orders.
NextAudit ==
    \/ \E c \in Customers, items \in {<<Item("A", 1)>>, <<Item("B", 1)>>} :
            PlaceOrder(c, FALSE, items) /\ Len(orders') <= MaxCycleOrders
    \/ \E c \in Customers, id \in OrderIds :
            /\ RoomForHistory(id, MaxStatusHist) \/ ~can_be_cancelled(orders[id])
            /\ cancel(c, id)
    \/ \E c \in Customers, id \in OrderIds,
            s \in {"pending", "shipped", "cancelled", NoStatus} :
            /\ RoomForHistory(id, MaxStatusHist) \/ ~status_changed(s, orders[id].status)
            /\ update(c, id, s, "")

SpecAudit == Init /\ [][NextAudit]_vars

\* Placement requests of every kind - unknown and inactive products, any
\* quantity, missing and empty carts - on a catalogue whose products change
\* status.
NextInput ==
    \/ \E c \in Customers :
            PlaceOrder(c, TRUE, <<>>) /\ Len(orders') <= MaxOrders
    \/ \E c \in Customers, items \in ItemLists(ProductIds, {0, 1, 2}) :
            PlaceOrder(c, FALSE, items) /\ Len(orders') <= MaxOrders
    \/ \E c \in Customers, p \in Products : add_item(c, p, 1)
    \/ \E c \in Customers : clear(c)
    \/ \E p \in Products, s \in {"active", "inactive"} : update_status(p, s)

SpecInput == Init /\ [][NextInput]_vars

\* Placements whose notification goes well or not.
NextNotify ==
    \/ \E c \in Customers, outcome \in Outcomes :
            PlaceOrderNotifying(c, TRUE, <<>>, outcome)
    \/ \E c \in Customers, items \in ItemLists(Products, {1}), outcome \in Outcomes :
            PlaceOrderNotifying(c, FALSE, items, outcome)
    \/ \E c \in Customers, p \in Products : add_item(c, p, 1)

SpecNotify == Init /\ [][NextNotify]_vars

\* Orders saved again and again while the customer's profile changes.
NextProfile ==
    \/ \E c \in Customers, items \in {<<Item("A", 1)>>, <<Item("B", 1)>>} :
            PlaceOrder(c, FALSE, items) /\ Len(orders') <= MaxOrders
    \/ \E c \in Customers, first_name \in {"", "Bea"}, city \in {"", "Mombasa"} :
            update_profile(c, first_name, city)
    \/ \E c \in Customers, id \in OrderIds :
            /\ RoomForHistory(id, MaxHist) \/ ~can_be_cancelled(orders[id])
            /\ cancel(c, id)
    \/ \E c \in Customers, id \in OrderIds, s \in {"confirmed", "shipped", NoStatus} :
            /\ RoomForHistory(id, MaxHist) \/ ~status_changed(s, orders[id].status)
            /\ update(c, id, s, "")

SpecProfile == Init /\ [][NextProfile]_vars

\* Cancels on a database that may raise, between status updates.
NextCancel ==
    \/ \E c \in Customers, id \in OrderIds, fault \in 0..4 :
            /\ RoomForHistory(id, MaxStatusHist) \/ ~can_be_cancelled(orders[id])
            /\ cancel_failing(c, id, fault)
    \/ \E c \in Customers, id \in OrderIds, s \in {"pending", "confirmed", "shipped"} :
            /\ RoomForHistory(id, MaxStatusHist) \/ ~status_changed(s, orders[id].status)
            /\ update(c, id, s, "")

SpecCancel == InitStatus /\ [][NextCancel]_vars

\* Status updates that carry a tracking number or none, and cancels.
NextDetails ==
    \/ \E c \in Customers, id \in OrderIds :
            /\ RoomForHistory(id, MaxStatusHist) \/ ~can_be_cancelled(orders[id])
            /\ cancel(c, id)
    \/ \E c \in Customers, id \in OrderIds,
            s \in {"pending", "confirmed", "shipped", NoStatus},
            t \in {NoTracking, "TRK1"} :
            /\ RoomForHistory(id, MaxStatusHist) \/ ~status_changed(s, orders[id].status)
            /\ update_details(c, id, s, "", t)

SpecDetails == InitStatus /\ [][NextDetails]_vars

\* The cart operations with every kind of argument, on a catalogue whose
\* products change status and whose stock is taken by orders.
NextCartOps ==
    \/ \E c \in Customers, p \in ProductIds, q \in {-1, 0, 1, 2, 3} : add_item(c, p, q)
    \/ \E c \in Customers, p \in ProductIds, q \in {-1, 0, 1, 2, 3} :
            update_quantity(c, p, q)
    \/ \E c \in Customers, p \in ProductIds : remove_item(c, p)
    \/ \E c \in Customers : clear(c)
    \/ \E p \in Products, s \in {"active", "inactive"} : update_status(p, s)
    \/ \E c \in Customers, items \in {<<Item("A", 1)>>, <<Item("B", 2)>>} :
            PlaceOrder(c, FALSE, items) /\ Len(orders') <= MaxOrders

SpecCartOps == Init /\ [][NextCartOps]_vars

\* A cart in use over the days, and the housekeeping task.
NextCarts ==
    \/ \E c \in Customers : add_item(c, "A", 1)
    \/ \E c \in Customers : update_quantity(c, "A", 2)
    \/ \E c \in Customers : remove_item(c, "A")
    \/ \E c \in Customers : clear(c)
    \/ cleanup_abandoned_carts
    \/ now < MaxDay /\ Tick

SpecCarts == Init /\ [][NextCarts]_vars

\* Two workers serving placements and cancels side by side: the database
\* holds an order of one unit of A and the customer's cart another unit of A.
InitRace ==
    /\ price = InitPrice
    /\ pstatus = [p \in Products |-> "active"]
    /\ now = 1
    /\ reqs = [r \in Requests |-> Idle]
    /\ notices = <<>>
    /\ profile = [c \in Customers |-> Registered]
    /\ jobs = [r \in Requests |-> NoJob]
    /\ resp = Response("add_item", 200, 0, "", 0)
    /\ \E c \in Customers :
         \E done \in {create(Fresh, c, FALSE, <<Item("A", 1)>>)} :
            /\ stock = done.stock
            /\ orders = done.orders
            /\ cart = [done.cart EXCEPT ![c] =
                        [exists |-> TRUE, items |-> <<CartItem("A", 1)>>,
                         updated_at |-> now]]

NextRace ==
    \/ \E r \in Requests, c \in Customers, id \in OrderIds :
            cancel_get_object(r, c, id)
    \/ \E r \in Requests : cancel_atomic(r)
    \/ \E r \in Requests, c \in Customers : create_read(r, c, TRUE, <<>>)
    \/ \E r \in Requests, c \in Customers, p \in Products :
            create_read(r, c, FALSE, <<Item(p, 1)>>)
    \/ \E r \in Requests : create_iterate(r)
    \/ \E r \in Requests : create_write(r)

SpecRace == InitRace /\ [][NextRace]_vars

\* Two workers serving create requests side by side, one unit of each product
\* left in stock.
InitConc ==
    /\ stock = [p \in Products |-> 1]
    /\ price = InitPrice
    /\ pstatus = [p \in Products |-> "active"]
    /\ cart = Fresh.cart
    /\ orders = Fresh.orders
    /\ now = 1
    /\ resp = Response("none", 0, 0, "", 0)
    /\ reqs = [r \in Requests |-> Idle]
    /\ notices = <<>>
    /\ profile = [c \in Customers |-> Registered]
    /\ jobs = [r \in Requests |-> NoJob]

NextConc ==
    \/ \E r \in Requests, c \in Customers :
            get_serializer(r, c, TRUE, <<>>)
    \/ \E r \in Requests, c \in Customers, items \in ItemLists(Products, {1}) :
            get_serializer(r, c, FALSE, items)
    \/ \E r \in Requests : is_valid(r)
    \/ \E r \in Requests : save(r)
    \/ \E r \in Requests, outcome \in Outcomes : notify(r, outcome)
    \/ \E c \in Customers, p \in Products : add_item(c, p, 1)

SpecConc == InitConc /\ [][NextConc]_vars

\* ------------------------------------------------------------------ claims

Rows(order, status) ==
    {i \in 1..Len(order.history) : order.history[i].status = status}

\* C1: a placement that is refused, wherever in its item list it stops, leaves
\* no order, order item or history row behind, and the stock of every product
\* and the customer's cart as they were before the attempt.
C1_PlacementAllOrNothing ==
    [][(resp'.op = "create" /\ resp'.code = 400)
        => (orders' = orders /\ stock' = stock /\ cart' = cart)]_vars

\* A cart-sourced placement was refused at its second item or later, after the
\* items before it had been transferred.
C1_Witness ==
    resp.op = "create" /\ resp.code = 400 /\ resp.arg = "cart" /\ resp.at >= 2

\* The requests that were answered 201 with an order holding product p.
Sold(p) ==
    {r \in Requests : /\ reqs[r].pc = "created"
                      /\ QuantityIn(orders[reqs[r].order].items, p) >= 1}

\* C2: of two placements served side by side that each ask for the last unit
\* of a product (stock 1), at most one succeeds with an order holding the
\* product - the other is refused - and the stock ends at 0, never below.
C2_NoOversell ==
    \A p \in Products :
        /\ Cardinality(Sold(p)) <= 1
        /\ stock[p] >= 0
        /\ Sold(p) # {} => stock[p] = 0

\* C3: the stock of every product is never negative.
C3_StockNonNegative == \A p \in Products : stock[p] >= 0

\* A product is sold out and a further placement has been refused.
C3_Witness ==
    /\ resp.op = "create" /\ resp.code = 400
    /\ \E p \in Products : stock[p] = 0
    /\ orders # <<>>

\* The cancel operation has restored the order (its history row is the one
\* OrderViewSet.cancel writes).
Cancellations(order) ==
    Cardinality({i \in 1..Len(order.history) :
                    order.history[i].comment = "Order cancelled by customer"})

Held(p) ==
    SumSeq([id \in 1..Len(orders) |->
                QuantityIn(orders[id].items, p) * (1 - Cancellations(orders[id]))])

\* C4: the stock of a product and the quantities held by the orders placed and
\* not cancelled add up to the initial stock: a placement followed by the
\* cancellation of its order leaves the stock where it was before the placement.
C4_StockConservation == \A p \in Products : stock[p] + Held(p) = InitStock

\* An order that took stock has been cancelled and the stock is back.
C4_Witness ==
    /\ \E id \in OrderIds :
            /\ Cancellations(orders[id]) = 1
            /\ \E p \in Products : QuantityIn(orders[id].items, p) > 0
    /\ stock = Fresh.stock

IsExample(items) ==
    /\ Len(items) = 2
    /\ \E i, j \in 1..2 :
            /\ items[i].unit_price = 15000 /\ items[i].quantity = 2
            /\ items[j].unit_price = 8000 /\ items[j].quantity = 1
            /\ i # j

\* C5: for every persisted order, subtotal = sum of unit_price * quantity,
\* tax_amount = 16% of the subtotal to the nearest cent, and total_amount =
\* subtotal + tax_amount + shipping_cost - discount_amount; 150.00 x 2 and
\* 80.00 x 1 give 380.00, 60.80 and 440.80.
C5_OrderTotals ==
    \A id \in OrderIds :
        LET o == orders[id]
            sub == SumSeq([i \in 1..Len(o.items) |->
                            o.items[i].unit_price * o.items[i].quantity])
        IN  /\ o.subtotal = sub
            /\ 100 * o.tax_amount - 50 <= 16 * sub
            /\ 16 * sub <= 100 * o.tax_amount + 50
            /\ o.total_amount =
                  o.subtotal + o.tax_amount + o.shipping_cost - o.discount_amount
            /\ IsExample(o.items) =>
                  (o.subtotal = 38000 /\ o.tax_amount = 6080 /\ o.total_amount = 44080)

\* The order of the example, saved again after its placement.
C5_Witness ==
    \E id \in OrderIds :
        /\ IsExample(orders[id].items)
        /\ Len(orders[id].history) >= 2
        /\ orders[id].total_amount = 44080

\* C6: a successful cart-sourced placement creates one order whose items are
\* the cart's items (same product, same quantity), lowers each product's stock
\* by the quantity ordered, empties the cart, and leaves the order pending with
\* the single history row (pending, "Order created", the placing customer).
C6_CartPlacement ==
    [][(resp'.op = "create" /\ resp'.code = 201 /\ resp'.arg = "cart") =>
        LET id == Len(orders')
            o == orders'[id]
            src == cart[o.customer].items
        IN  /\ Len(orders') = Len(orders) + 1
            /\ Len(o.items) = Len(src)
            /\ \A i \in 1..Len(src) :
                    /\ o.items[i].product = src[i].product
                    /\ o.items[i].quantity = src[i].quantity
            /\ \A p \in Products : stock'[p] = stock[p] - QuantityIn(src, p)
            /\ cart'[o.customer].items = <<>>
            /\ o.status = "pending"
            /\ o.history = <<[status |-> "pending", comment |-> "Order created",
                              created_by |-> o.customer]>>]_vars

\* A cart of two items has been placed.
C6_Witness ==
    /\ resp.op = "create" /\ resp.code = 201 /\ resp.arg = "cart"
    /\ Len(orders[resp.order].items) = 2

\* C7: no step changes the unit_price or total_price of an existing order item
\* or the subtotal, tax_amount or total_amount of an existing order, whatever
\* happens to the product's price; the cart total moves with the price.
C7_PriceSnapshot ==
    [][/\ \A id \in OrderIds :
            /\ id <= Len(orders')
            /\ orders'[id].items = orders[id].items
            /\ orders'[id].subtotal = orders[id].subtotal
            /\ orders'[id].tax_amount = orders[id].tax_amount
            /\ orders'[id].total_amount = orders[id].total_amount
       /\ \A c \in Customers :
            (cart'[c] = cart[c] /\ price' # price) =>
                cart_total_amount(c)' - cart_total_amount(c) =
                    SumSeq([i \in 1..Len(cart[c].items) |->
                        (price'[cart[c].items[i].product] - price[cart[c].items[i].product])
                            * cart[c].items[i].quantity])]_vars

\* The order was saved by a status update or a cancellation while the price of
\* one of its products differs from the price it was ordered at.
C7_Witness ==
    /\ resp.op \in {"update", "cancel"} /\ resp.code = 200
    /\ \E i \in 1..Len(orders[resp.order].items) :
            orders[resp.order].items[i].unit_price
                # price[orders[resp.order].items[i].product]

TimesOf(order) == <<order.confirmed_at, order.shipped_at, order.delivered_at>>

\* C8: a status update appends a history row exactly when the requested status
\* differs from the order's status before it; a request for the status the
\* order already has leaves the history and the timestamps as they were.
C8_HistoryOnChange ==
    [][(resp'.op = "update" /\ <<orders, resp>>' # <<orders, resp>>) =>
        LET id == resp'.order
            s == resp'.arg
            o == orders[id]
            n == orders'[id]
        IN  /\ IF s # NoStatus /\ s # o.status
               THEN /\ Len(n.history) = Len(o.history) + 1
                    /\ SubSeq(n.history, 1, Len(o.history)) = o.history
                    /\ n.history[Len(n.history)].status = s
                    /\ n.history[Len(n.history)].created_by = o.customer
               ELSE n.history = o.history
            /\ s = o.status => TimesOf(n) = TimesOf(o)
            /\ (s = "shipped" /\ o.status # "shipped") => n.shipped_at = now]_vars

\* The latest request asked for 'shipped' on an order shipped at an earlier
\* time: one 'shipped' row, shipped_at as first set.
C8_Witness ==
    /\ resp.op = "update" /\ resp.arg = "shipped"
    /\ orders[resp.order].status = "shipped"
    /\ Cardinality(Rows(orders[resp.order], "shipped")) = 1
    /\ orders[resp.order].shipped_at # NoTime
    /\ orders[resp.order].shipped_at < now

Entered(o, n, status) == o.status # status /\ n.status = status

\* C9 as claimed: each of confirmed_at / shipped_at / delivered_at is set when
\* the order enters the status and, once set, is never overwritten.
C9_SetOnce ==
    [][\A id \in OrderIds :
        LET o == orders[id]
            n == orders'[id]
        IN  /\ Entered(o, n, "confirmed") => n.confirmed_at # NoTime
            /\ Entered(o, n, "shipped") => n.shipped_at # NoTime
            /\ Entered(o, n, "delivered") => n.delivered_at # NoTime
            /\ o.confirmed_at # NoTime => n.confirmed_at = o.confirmed_at
            /\ o.shipped_at # NoTime => n.shipped_at = o.shipped_at
            /\ o.delivered_at # NoTime => n.delivered_at = o.delivered_at]_vars

\* C9 as amended: a timestamp is set to the current time by every step that
\* moves the order into its status from another status, and changed by no
\* other step.
C9_StampOnTransition ==
    [][\A id \in OrderIds :
        LET o == orders[id]
            n == orders'[id]
        IN  /\ n.confirmed_at =
                  IF Entered(o, n, "confirmed") THEN now ELSE o.confirmed_at
            /\ n.shipped_at =
                  IF Entered(o, n, "shipped") THEN now ELSE o.shipped_at
            /\ n.delivered_at =
                  IF Entered(o, n, "delivered") THEN now ELSE o.delivered_at]_vars

\* The order was shipped, delivered, and shipped again later: shipped_at holds
\* the time of the second shipping.
C9_Witness ==
    \E id \in OrderIds :
        /\ Cardinality(Rows(orders[id], "shipped")) = 2
        /\ orders[id].delivered_at # NoTime
        /\ orders[id].shipped_at > orders[id].delivered_at

\* C10: cancel succeeds exactly on an order that is pending or confirmed; on
\* any other order it answers with an error and leaves the orders (status,
\* history) and the stock of every product unchanged.
C10_CancelOnlyWhenAllowed ==
    [][(resp'.op = "cancel" /\ <<orders, stock, resp>>' # <<orders, stock, resp>>) =>
        LET o == orders[resp'.order]
        IN  /\ resp'.code = 200 <=> o.status \in {"pending", "confirmed"}
            /\ resp'.code = 400 => (orders' = orders /\ stock' = stock)]_vars

\* A cancel request on a shipped order has been refused.
C10_Witness ==
    /\ resp.op = "cancel" /\ resp.code = 400
    /\ orders[resp.order].status = "shipped"

\* C12: a status update to any status, 'cancelled' and 'refunded' included,
\* leaves the stock of every product unchanged; the stock of a product rises
\* only in a successful cancel.
C12_UpdateKeepsStock ==
    [][/\ resp'.op = "update" => stock' = stock
       /\ (\E p \in Products : stock'[p] > stock[p])
            => (resp'.op = "cancel" /\ resp'.code = 200)]_vars

\* A status update has set the order to 'refunded' and the stock the order
\* took is still taken.
C12_Witness ==
    /\ resp.op = "update" /\ resp.arg = "refunded"
    /\ orders[resp.order].status = "refunded"
    /\ \E p \in Products :
            /\ QuantityIn(orders[resp.order].items, p) > 0
            /\ stock[p] = InitStock - QuantityIn(orders[resp.order].items, p)

Rank(status) ==
    CASE status = "pending" -> 1
      [] status = "confirmed" -> 2
      [] status = "processing" -> 3
      [] status = "shipped" -> 4
      [] status = "delivered" -> 5
      [] OTHER -> 0

\* C18 as claimed: once an order is cancelled, delivered or refunded no step
\* changes its status, and no step moves an order backwards along
\* pending -> confirmed -> processing -> shipped -> delivered.
C18_Monotonic ==
    [][\A id \in OrderIds :
        LET old == orders[id].status
            new == orders'[id].status
        IN  /\ old \in {"cancelled", "delivered", "refunded"} => new = old
            /\ (Rank(old) > 0 /\ Rank(new) > 0) => Rank(new) >= Rank(old)]_vars

\* C18 as amended: the status of an order changes only in a status update,
\* which sets it to the status requested whatever the status before, and in a
\* cancel of a pending or confirmed order, which sets it to cancelled; a
\* cancel of an order in any other status leaves the status as it is.
C18_StatusChanges ==
    [][/\ \A id \in OrderIds :
            orders'[id].status # orders[id].status =>
                \/ /\ resp'.op = "update" /\ resp'.order = id
                   /\ orders'[id].status = resp'.arg
                \/ /\ resp'.op = "cancel" /\ resp'.order = id /\ resp'.code = 200
                   /\ orders[id].status \in {"pending", "confirmed"}
                   /\ orders'[id].status = "cancelled"
       /\ (resp'.op = "update" /\ resp' # resp /\ resp'.arg # NoStatus)
            => orders'[resp'.order].status = resp'.arg]_vars

\* A delivered order has been set back to pending.
C18_Witness ==
    \E id \in OrderIds :
        /\ orders[id].status = "pending"
        /\ Rows(orders[id], "delivered") # {}
        /\ resp.op = "update" /\ resp.arg = "pending"

\* C19: the status history of an existing order only grows: every step leaves
\* the rows an order already had in place, with their status, comment and
\* actor.
C19_HistoryAppendOnly ==
    [][\A id \in OrderIds :
        /\ id <= Len(orders')
        /\ Len(orders'[id].history) >= Len(orders[id].history)
        /\ SubSeq(orders'[id].history, 1, Len(orders[id].history))
              = orders[id].history]_vars

\* Two orders exist, one with a history of four rows, the other placed and
\* then cancelled.
C19_Witness ==
    \E id, other \in OrderIds :
        /\ id # other
        /\ Len(orders[id].history) = 4
        /\ Cancellations(orders[other]) = 1

\* The requests that validation has to refuse, in the state as it is.
Rejectable(customer, use_cart, items) ==
    IF use_cart
    THEN cart[customer] = NoCart \/ cart[customer].items = <<>>
    ELSE \/ items = <<>>
         \/ \E i \in 1..Len(items) :
                \/ items[i].product_id \notin Products
                \/ pstatus[items[i].product_id] # "active"
                \/ items[i].quantity > stock[items[i].product_id]

\* C13: in every reachable state a placement request is refused, with the
\* orders (items and history included), the stock and the cart left as they
\* are, whenever its explicit items name an unknown or inactive product or a
\* quantity above the stock, or it has use_cart false and no items, or it has
\* use_cart true and the cart is missing or empty.
C13_ValidationNoMutation ==
    \A c \in Customers, use_cart \in BOOLEAN, items \in ItemLists(ProductIds, {0, 1, 2}) :
        Rejectable(c, use_cart, items) =>
            \E done \in {Placement(c, use_cart, items)} :
                /\ ~done.ok
                /\ done.orders = orders
                /\ done.stock = stock
                /\ done.cart = cart

\* An explicit request has been refused at its first item while a product is
\* inactive, another is sold out and the cart holds items.
C13_Witness ==
    /\ resp.op = "create" /\ resp.code = 400 /\ resp.arg = "items" /\ resp.at = 1
    /\ \E p \in Products : pstatus[p] = "inactive"
    /\ \E p \in Products : stock[p] = 0
    /\ \E c \in Customers : cart[c] # NoCart /\ cart[c].items # <<>>

\* C20: every persisted OrderItem has quantity >= 1 and an order holds at most
\* one OrderItem per product.
C20_ItemsWellFormed ==
    \A id \in OrderIds :
        LET items == orders[id].items
        IN  /\ \A i \in 1..Len(items) : items[i].quantity >= 1
            /\ \A i, j \in 1..Len(items) :
                    items[i].product = items[j].product => i = j

\* The request r has left the atomic block of create in this step.
Saving(r) == reqs[r].pc = "valid" /\ reqs'[r].pc # "valid"

\* What request r asks of product p: from its items, or from the cart.
Asked(r, p) ==
    IF reqs[r].use_cart
    THEN QuantityIn([i \in 1..Len(cart[reqs[r].customer].items) |->
                        [product |-> cart[reqs[r].customer].items[i].product,
                         quantity |-> cart[reqs[r].customer].items[i].quantity]], p)
    ELSE QuantityIn([i \in 1..Len(reqs[r].items) |->
                        [product |-> reqs[r].items[i].product_id,
                         quantity |-> reqs[r].items[i].quantity]], p)

\* C14: a placement that reaches the transfer of its items when the stock of
\* a product is below the quantity it asks for fails and changes neither
\* orders nor stock; a placement that succeeds has deducted the quantity of
\* each of its order items from the stock.
C14_TransferChecksStock ==
    [][\A r \in Requests : Saving(r) =>
        /\ (\E p \in Products : Asked(r, p) > stock[p]) =>
                (reqs'[r].pc = "refused" /\ orders' = orders /\ stock' = stock)
        /\ reqs'[r].pc = "saved" =>
                \A p \in Products :
                    stock'[p] = stock[p] - QuantityIn(orders'[reqs'[r].order].items, p)]_vars

\* C15: whatever happens to the notification - sent, reported as failed, or
\* an exception inside it - the placement it follows stays committed (the
\* order with its items and history row, the stock taken, the cart emptied)
\* and is answered 201 with the order.
C15_NotificationNeverFails ==
    [][Len(notices') > Len(notices) =>
        LET n == notices'[Len(notices')]
            o == orders'[n.order]
        IN  /\ resp'.op = "create" /\ resp'.code = 201 /\ resp'.order = n.order
            /\ Len(orders') = Len(orders) + 1 /\ n.order = Len(orders')
            /\ o.items # <<>>
            /\ o.history = <<[status |-> "pending", comment |-> "Order created",
                              created_by |-> o.customer]>>
            /\ \A p \in Products : stock'[p] = stock[p] - QuantityIn(o.items, p)
            /\ resp'.arg = "cart" => cart'[o.customer].items = <<>>]_vars

\* The notification of a cart placement raised, and the placement was
\* answered 201 with the cart emptied.
C15_Witness ==
    /\ notices # <<>>
    /\ notices[Len(notices)].result = "raised"
    /\ resp.op = "create" /\ resp.code = 201 /\ resp.arg = "cart"
    /\ resp.order = notices[Len(notices)].order
    /\ cart[orders[resp.order].customer].items = <<>>

\* C16: send_order_notifications is called for an order only in a step after
\* the one that committed the order, outside its transaction, and never for
\* a placement that was refused or rolled back.
C16_NotifyAfterCommit ==
    [][notices' # notices =>
        /\ Len(notices') = Len(notices) + 1
        /\ SubSeq(notices', 1, Len(notices)) = notices
        /\ LET n == notices'[Len(notices')]
           IN  /\ n.order \in OrderIds
               /\ orders[n.order].history # <<>>
               /\ \E r \in Requests : reqs[r].pc = "saved" /\ reqs[r].order = n.order
               /\ \A i \in 1..Len(notices) : notices[i].order # n.order
        /\ orders' = orders /\ stock' = stock /\ cart' = cart]_vars

\* One request was answered after its notification while the other was
\* refused inside create, without any notification.
C16_Witness ==
    \E r1, r2 \in Requests :
        /\ reqs[r1].pc = "created"
        /\ reqs[r2].pc = "refused" /\ resp.code = 400 /\ resp.at >= 1
        /\ Len(notices) = 1 /\ notices[1].order = reqs[r1].order

Snapshot(order) ==
    <<order.billing_first_name, order.billing_city,
      order.shipping_first_name, order.shipping_city>>

\* C17: the billing and shipping fields of an order are those of the
\* customer's profile when the order was created, and no later step - profile
\* change, status update, cancellation - changes them.
C17_SnapshotOnce ==
    [][/\ \A id \in OrderIds :
            id <= Len(orders') /\ Snapshot(orders'[id]) = Snapshot(orders[id])
       /\ Len(orders') > Len(orders) =>
            LET o == orders'[Len(orders')]
                c == profile[o.customer]
            IN  Snapshot(o) = <<c.first_name, c.city, c.first_name, c.city>>]_vars

\* An order placed under the old profile was saved again by a status update
\* or a cancellation after the profile changed.
C17_Witness ==
    /\ resp.op \in {"update", "cancel"} /\ resp.code = 200
    /\ Len(orders[resp.order].history) >= 2
    /\ orders[resp.order].billing_first_name
            # profile[orders[resp.order].customer].first_name
    /\ orders[resp.order].billing_city # profile[orders[resp.order].customer].city

\* C11: a cancel of a pending or confirmed order either commits all of its
\* effects together - the stock of each item's product raised by the item's
\* quantity, the status 'cancelled', one history row 'cancelled' by the
\* requesting customer - or, when a write fails, leaves none of them.
C11_CancelAtomic ==
    [][(/\ resp'.op = "cancel"
        /\ <<orders, stock, resp>>' # <<orders, stock, resp>>
        /\ orders[resp'.order].status \in {"pending", "confirmed"}) =>
        LET id == resp'.order
            o == orders[id]
            n == orders'[id]
        IN  \/ /\ resp'.code = 200
               /\ \A p \in Products : stock'[p] = stock[p] + QuantityIn(o.items, p)
               /\ n.status = "cancelled"
               /\ n.history = Append(o.history,
                        [status |-> "cancelled",
                         comment |-> "Order cancelled by customer",
                         created_by |-> o.customer])
               /\ \A other \in OrderIds \ {id} : orders'[other] = orders[other]
            \/ /\ resp'.code = 500
               /\ orders' = orders
               /\ stock' = stock]_vars

\* A cancel of an order of two items failed at the save of the order, after
\* both restorations: the order is still open and its stock still taken.
C11_Witness ==
    /\ resp.op = "cancel" /\ resp.code = 500 /\ resp.at = 3
    /\ Len(orders[resp.order].items) = 2
    /\ orders[resp.order].status \in {"pending", "confirmed"}
    /\ \A p \in Products :
            stock[p] = InitStock - QuantityIn(orders[resp.order].items, p)

\* C21: a status update whose status is the order's current status is refused
\* and changes nothing of the order.
C21_SameStatusRejected ==
    [][(/\ resp'.op = "update"
        /\ <<orders, resp>>' # <<orders, resp>>
        /\ resp'.arg = orders[resp'.order].status)
        => (resp'.code = 400 /\ orders' = orders)]_vars

\* C22: the housekeeping removes no cart to which an item was added within
\* the last 30 days.
C22_ActiveCartKept ==
    [][\A c \in Customers :
        (cart[c].exists /\ ~cart'[c].exists) =>
            \A i \in 1..Len(cart[c].items) :
                cart[c].items[i].added_at < now - CartMaxAge]_vars

CartWellFormed ==
    \A c \in Customers :
        LET items == cart[c].items
        IN  /\ \A i, j \in 1..Len(items) : items[i].product = items[j].product => i = j
            /\ \A i \in 1..Len(items) : items[i].quantity >= 1

C24_RestoredAtMostOnce ==
    \A p \in Products : stock[p] <= Fresh.stock[p]

\* The workers whose request of the given kind was answered with success.
Done(op) == {r \in Requests : jobs[r].pc = "done" /\ jobs[r].op = op}

\* C26: two cancels of one order served side by side give the stock of the
\* order's products back once in total and append one 'cancelled' row: when
\* both have been answered, the order - the only one placed - has one
\* 'cancelled' row and the stock is the initial stock again.
C26_CancelOnce ==
    \A id \in OrderIds :
        (\A r \in Requests : jobs[r].op = "cancel" /\ jobs[r].order = id
                                /\ jobs[r].pc \in {"done", "refused"}) =>
            /\ Cardinality(Rows(orders[id], "cancelled")) = 1
            /\ stock = Fresh.stock

\* C27: of two cart placements of one customer served side by side on the
\* same cart contents, at most one creates an order.
C27_CartConsumedOnce ==
    Cardinality({r \in Done("create") : jobs[r].use_cart}) <= 1

\* C28: when the placements and cancels served side by side have all
\* succeeded, no order cancelled twice, the stock of every product is the
\* initial stock, minus the quantities of the orders placed, plus the
\* quantities of the orders cancelled.
C28_NoLostUpdate ==
    (/\ \A r \in Requests : jobs[r].pc = "done"
     /\ \A id \in OrderIds :
            Cardinality({r \in Done("cancel") : jobs[r].order = id}) <= 1) =>
        \A p \in Products :
            stock[p] = Fresh.stock[p]
                - SumSeq([id \in 1..Len(orders) |-> QuantityIn(orders[id].items, p)])
                + SumSeq([id \in 1..Len(orders) |->
                            QuantityIn(orders[id].items, p)
                            * Cardinality({r \in Done("cancel") : jobs[r].order = id})])

\* C25: the status of every order is the status of its latest history row, and
\* no two consecutive history rows of an order carry the same status.
C25_StatusIsLatestRow ==
    \A id \in OrderIds :
        LET history == orders[id].history
        IN  /\ history # <<>>
            /\ orders[id].status = history[Len(history)].status
            /\ \A i \in 1..(Len(history) - 1) : history[i].status # history[i + 1].status

\* C29: every item of an order just placed, from the cart or from a list of
\* items, is of a product that was active when the order was placed.
C29_ActiveProductsOnly ==
    [][(resp'.op = "create" /\ resp'.code = 201 /\ Len(orders') = Len(orders) + 1) =>
        LET o == orders'[Len(orders')]
        IN  \A i \in 1..Len(o.items) : pstatus[o.items[i].product] = "active"]_vars

\* C30: every order has at least one item, and a history whose oldest row has
\* the status 'pending'.
C30_OrdersHaveItems ==
    \A id \in OrderIds :
        /\ orders[id].items # <<>>
        /\ orders[id].history # <<>>
        /\ orders[id].history[1].status = "pending"

====
